---- MODULE Spec2Model ----
(***************************************************************************)
(* django-eventtools: occurrence expansion, approximate/exact period       *)
(* filtering and the k-way merge of occurrence generators                  *)
(* (src/eventtools/models.py).                                             *)
(*                                                                         *)
(* Time is counted in ticks.  A day has TicksPerDay ticks; tick 0 of a day *)
(* is 00:00:00, tick EndOfDayTick is 23:59:59 and the ticks after it are   *)
(* the instants of the last second (23:59:59.000001 ...), which a          *)
(* datetime can hold.  A date is a day number.  A naive datetime is its    *)
(* wall-clock tick, an aware datetime is its UTC tick.  Python's None is   *)
(* the integer None, below every tick, for an absent date, datetime or    *)
(* limit.                                                                  *)
(***************************************************************************)
EXTENDS Integers, Sequences, FiniteSets, TLC

VARIABLES use_tz,   \* settings.USE_TZ
          time_zone, \* settings.TIME_ZONE: the default zone and its library
          raised,   \* whether the call raised an exception
          now,      \* the local clock read by datetime.now() / date.today()
          db,       \* the occurrence table, in Meta.ordering order
          call,     \* the public method that was called, with its arguments
          result,   \* what the call returned (generators are listed)
          gens,     \* combine_occurrences: what each input generator has left
          grouped,  \* combine_occurrences: the list of {'generator', 'next'}
          count,    \* combine_occurrences: the number of items yielded
          limit,    \* combine_occurrences: the limit argument
          yielded,  \* combine_occurrences: the items the consumer received
          pulls,    \* combine_occurrences: next() calls made on the inputs
          next_group, \* combine_occurrences: the index of the group chosen
          pc        \* combine_occurrences: position in the generator body

vars == <<use_tz, time_zone, raised, now, db, call, result, gens, grouped, count, limit,
          yielded, pulls, next_group, pc>>

mergeVars == <<gens, grouped, count, limit, yielded, pulls, next_group, pc>>
apiVars == <<db, call, result>>

(***************************************************************************)
(* Bounds of the model                                                     *)
(***************************************************************************)
TicksPerDay == 3
MaxDay == 3
DaysPerYear == 21
ZoneOffset == 1

None == -1000
EndOfDayTick == TicksPerDay - 2
TicksPerYear == DaysPerYear * TicksPerDay

Min(a, b) == IF a <= b THEN a ELSE b
Max(a, b) == IF a >= b THEN a ELSE b

(***************************************************************************)
(* Program constants                                                       *)
(***************************************************************************)
REPEAT_MAX == 200

DAILY == "RRULE:FREQ=DAILY"
WEEKLY == "RRULE:FREQ=WEEKLY"
REPEAT_CHOICES == {DAILY, WEEKLY}
YEARLY == "RRULE:FREQ=YEARLY"
MONTHLY == "RRULE:FREQ=MONTHLY"

\* dateutil's integer codes, as the text column holds them and as the
\* lookup `repeat=rrule.YEARLY` prepares them
rrule_YEARLY == "0"
rrule_MONTHLY == "1"
rrule_WEEKLY == "2"
rrule_DAILY == "3"

(***************************************************************************)
(* Time normalisation                                                      *)
(***************************************************************************)
\* datetime.date(): the day of a wall-clock tick
DateOf(t) == t \div TicksPerDay

\* max_future_date(): midnight of 1 January of the current year plus 10
max_future_date == ((DateOf(now) \div DaysPerYear) + 10) * TicksPerYear

\* The default zone: ZoneOffset ahead of UTC, and from the UTC tick `at` on
\* (when there is one) ahead by `shift` more: +1 is a spring-forward, -1 a
\* fall-back transition.  `strict` is the zone library that refuses a
\* wall-clock time that no instant or two instants have (pytz, localize with
\* is_dst=None); the other takes the offset before the transition (zoneinfo,
\* fold=0).
NoDst == [at |-> None, shift |-> 0, strict |-> FALSE]

UtcOffset(u) ==
    ZoneOffset + (IF time_zone.at # None /\ u >= time_zone.at
                  THEN time_zone.shift ELSE 0)

\* the instants whose wall-clock reading in the default zone is w
Instants(w) ==
    {u \in {w - ZoneOffset, w - ZoneOffset - time_zone.shift} :
        u + UtcOffset(u) = w}

\* make_aware(w) raises: w was skipped, or came twice, at the transition
Unlocalizable(w) ==
    use_tz /\ time_zone.strict /\ Cardinality(Instants(w)) # 1

\* make_aware(w) in the default zone
make_aware(w) ==
    IF (w - ZoneOffset) \in Instants(w) \/ Instants(w) = {}
    THEN w - ZoneOffset
    ELSE w - ZoneOffset - time_zone.shift

\* default_aware(dt), called on a naive dt: make_aware attaches the default
\* zone
default_aware(dt) == IF use_tz THEN make_aware(dt) ELSE dt

\* default_naive(dt), called on an aware dt when USE_TZ is set: make_naive
\* gives the wall-clock reading in the default zone
default_naive(dt) == IF use_tz THEN dt + UtcOffset(dt) ELSE dt

\* Arguments of the public methods: a date, a naive datetime, an aware
\* datetime, or None
NoArg == [kind |-> "none", v |-> None]
DateArg(d) == [kind |-> "date", v |-> d]
NaiveArg(t) == [kind |-> "naive", v |-> t]
AwareArg(t) == [kind |-> "aware", v |-> t]

\* as_datetime(d, end): a date becomes 0:00 or 23:59:59 of that day; a
\* datetime is made aware when it is naive and USE_TZ is set
as_datetime(d, end) ==
    IF d.kind = "date"
    THEN default_aware(d.v * TicksPerDay + (IF end THEN EndOfDayTick ELSE 0))
    ELSE IF d.kind = "naive" THEN default_aware(d.v)
    ELSE d.v

\* `x and as_datetime(x, end)`
AsDatetimeOrNone(d, end) == IF d.kind = "none" THEN None ELSE as_datetime(d, end)

(***************************************************************************)
(* The recurrence rule library (dateutil.rrule), as get_repeater and       *)
(* between use it: the rule yields dtstart + k * period, k = 0, 1, ...     *)
(***************************************************************************)
Period(repeat) == IF repeat = WEEKLY THEN 7 * TicksPerDay ELSE TicksPerDay

\* get_repeater(): an rruleset of one rule anchored at the naive start
get_repeater(self) ==
    [dtstart |-> default_naive(self.start), period |-> Period(self.repeat)]

\* repeater.between(after, before, inc=True): the rule's datetimes d with
\* after <= d <= before, ascending
between(repeater, after, before) ==
    LET p == repeater.period
        k0 == IF after <= repeater.dtstart THEN 0
              ELSE (after - repeater.dtstart + p - 1) \div p
        k1 == IF before < repeater.dtstart THEN -1
              ELSE (before - repeater.dtstart) \div p
    IN  IF k1 < k0 THEN << >>
        ELSE [i \in 1..(k1 - k0 + 1) |-> repeater.dtstart + (k0 + i - 1) * p]

(***************************************************************************)
(* BaseOccurrence                                                          *)
(***************************************************************************)
\* self.start.date(): the date that the fields of the datetime show.  An
\* aware start is in UTC when the instance was loaded from the database and
\* in the default zone when a form or make_aware built it.
StartDate(self, utc) ==
    IF utc THEN DateOf(self.start) ELSE DateOf(default_naive(self.start))

\* the first test with `>` for `>=`
StartAfterEnd(self) == self.start > self.end

\* line 358: `self.start >= self.end`
StartNotBeforeEnd(self) == self.start >= self.end

\* BaseOccurrence.clean() raises ValidationError
CleanRaises(self, utc) ==
    \/ (self.start # None /\ self.end # None /\ StartNotBeforeEnd(self))
    \/ (self.repeat_until # None /\ self.repeat = "")
    \/ (self.start # None /\ self.repeat_until # None
        /\ self.repeat_until < StartDate(self, utc))

\* BaseOccurrence.clean() on an instance in the default zone: TRUE when no
\* ValidationError is raised
clean(self) == ~CleanRaises(self, FALSE)

\* BaseOccurrence.all_occurrences(from_date, to_date, limit), listed.  An
\* occurrence is <<start, end, occurrence_data>>; occurrence_data is the
\* record itself, named by its pk.
OccurrenceWindowFrom(self, from_date) ==
    IF from_date = None \/ from_date < self.start THEN self.start
    ELSE from_date

OccurrenceWindowTo(self, to_date) ==
    IF self.repeat_until # None
       /\ (to_date = None
           \/ as_datetime(DateArg(self.repeat_until), TRUE) < to_date)
    THEN as_datetime(DateArg(self.repeat_until), TRUE)
    ELSE IF to_date = None THEN default_aware(max_future_date)
    ELSE to_date

\* the window test without its `end >= from_date` alternative
NonRepeatingStartInWindow(self, from_date, to_date) ==
    /\ (from_date = None \/ self.start >= from_date)
    /\ (to_date = None \/ self.start <= to_date)

\* lines 385-387: the single occurrence of a record that does not repeat is
\* yielded when it is in the window
NonRepeatingInWindow(self, from_date, to_date) ==
    /\ \/ from_date = None
       \/ self.start >= from_date
       \/ (self.end # None /\ self.end >= from_date)
    /\ (to_date = None \/ self.start <= to_date)

\* line 390
OccurrenceDelta(self) ==
    IF self.end # None THEN self.end - self.start ELSE 0

\* the lower bound left as it is
RepeaterFromUnshifted(from_date, delta) == from_date

\* line 407: `from_date -= delta`
RepeaterFrom(from_date, delta) == from_date - delta

\* the loop returning at `count >= limit`
CutBeforeLimit(starts, lim) == SubSeq(starts, 1, Min(Len(starts), lim - 1))

\* lines 413-417: the loop returns at the first item past the limit
CutAtLimit(starts, lim) == SubSeq(starts, 1, Min(Len(starts), lim))

\* the wall-clock time as_datetime hands to make_aware for a date or a
\* naive datetime, and whether make_aware raises on it
WallOfArg(d, end) ==
    IF d.kind = "date"
    THEN d.v * TicksPerDay + (IF end THEN EndOfDayTick ELSE 0)
    ELSE d.v
ArgumentRaises(d, end) ==
    d.kind \in {"date", "naive"} /\ Unlocalizable(WallOfArg(d, end))

\* lines 381-403: a make_aware of the statements before the loop raises
RaisesBeforeLoop(self, from_arg, to_arg) ==
    /\ self.start # None
    /\ \/ ArgumentRaises(from_arg, FALSE)
       \/ ArgumentRaises(to_arg, TRUE)
       \/ /\ self.repeat # ""
          /\ IF self.repeat_until # None
             THEN Unlocalizable(self.repeat_until * TicksPerDay + EndOfDayTick)
             ELSE to_arg.kind = "none" /\ Unlocalizable(max_future_date)

\* lines 390-411: the list that repeater.between(...) returns
RepeaterBetween(self, from_arg, to_arg) ==
    LET from_date == AsDatetimeOrNone(from_arg, FALSE)
        to_date == AsDatetimeOrNone(to_arg, TRUE)
        delta == OccurrenceDelta(self)
        from1 == RepeaterFrom(OccurrenceWindowFrom(self, from_date), delta)
        to1 == OccurrenceWindowTo(self, to_date)
    IN  between(get_repeater(self), default_naive(from1), default_naive(to1))

\* lines 390-417: the naive datetimes the loop takes from the repeater
\* before it returns
OccurrenceStarts(self, from_arg, to_arg, lim) ==
    CutAtLimit(RepeaterBetween(self, from_arg, to_arg), lim)

\* how many of them are made aware before make_aware raises: all of them
\* when it does not
Rezoned(starts) ==
    LET bad == {i \in 1..Len(starts) : Unlocalizable(starts[i])}
    IN  IF bad = {} THEN Len(starts)
        ELSE (CHOOSE i \in bad : \A j \in bad : i <= j) - 1

\* the result made aware with the offset of the zone before its transition
RezoneAtFirstOffset(occ_start) ==
    IF use_tz THEN occ_start - ZoneOffset ELSE occ_start

\* line 420: `occ_start = default_aware(occ_start)`
RezoneOccurrence(occ_start) == default_aware(occ_start)

\* lines 413-421: the occurrences that the loop yields from the naive
\* datetimes `starts`
OccurrencesOf(self, starts) ==
    [i \in 1..Rezoned(starts) |->
        <<RezoneOccurrence(starts[i]),
          RezoneOccurrence(starts[i]) + OccurrenceDelta(self), self.pk>>]

\* what the generator yields before it returns or raises
Occurrence_all_occurrences(self, from_arg, to_arg, lim) ==
    IF self.start = None \/ RaisesBeforeLoop(self, from_arg, to_arg)
    THEN << >>
    ELSE
    LET from_date == AsDatetimeOrNone(from_arg, FALSE)
        to_date == AsDatetimeOrNone(to_arg, TRUE)
    IN  IF self.repeat = ""
        THEN IF NonRepeatingInWindow(self, from_date, to_date)
             THEN << <<self.start, self.end, self.pk>> >>
             ELSE << >>
        ELSE
        CHOOSE occurrences \in
            {OccurrencesOf(self, starts) :
                starts \in {OccurrenceStarts(self, from_arg, to_arg, lim)}} :
            TRUE

\* the generator ends by an exception of make_aware
Occurrence_all_occurrences_raises(self, from_arg, to_arg, lim) ==
    \/ RaisesBeforeLoop(self, from_arg, to_arg)
    \/ /\ self.start # None
       /\ self.repeat # ""
       /\ LET starts == OccurrenceStarts(self, from_arg, to_arg, lim)
          IN  Rezoned(starts) < Len(starts)

(***************************************************************************)
(* combine_occurrences(generators, limit), listed.  A generator is the     *)
(* sequence of what it has left to yield; a group is                       *)
(* {'generator': gen, 'next': next_date}.                                  *)
(***************************************************************************)
\* lines 85-91: one next() on every generator; an exhausted one is dropped
RECURSIVE SeedGroups(_)
SeedGroups(generators) ==
    IF generators = << >> THEN << >>
    ELSE LET gen == Head(generators)
         IN  IF gen = << >> THEN SeedGroups(Tail(generators))
             ELSE <<[generator |-> Tail(gen), next |-> Head(gen)]>>
                  \o SeedGroups(Tail(generators))

\* the choice made on the end of the items
SelectNextGroupByEnd(groups) ==
    CHOOSE i \in 1..Len(groups) :
        /\ \A j \in 1..Len(groups) : groups[i].next[2] <= groups[j].next[2]
        /\ \A j \in 1..(i - 1) : groups[j].next[2] > groups[i].next[2]

\* lines 100-103: the first group whose 'next' has the least start
SelectNextGroup(groups) ==
    CHOOSE i \in 1..Len(groups) :
        /\ \A j \in 1..Len(groups) : groups[i].next[1] <= groups[j].next[1]
        /\ \A j \in 1..(i - 1) : groups[j].next[1] > groups[i].next[1]

\* every group takes a new item from its generator, or is removed
RECURSIVE RefillAll(_, _)
RefillAll(groups, i) ==
    IF groups = << >> THEN << >>
    ELSE (IF Head(groups).generator = << >> THEN << >>
          ELSE <<[generator |-> Tail(Head(groups).generator),
                  next |-> Head(Head(groups).generator)]>>)
         \o RefillAll(Tail(groups), i)

\* the group is removed whatever its generator has left
RefillGroupDropping(groups, i) ==
    SubSeq(groups, 1, i - 1) \o SubSeq(groups, i + 1, Len(groups))

\* lines 110-114: refill the group from its generator, or remove the group
RefillGroup(groups, i) ==
    IF groups[i].generator = << >>
    THEN SubSeq(groups, 1, i - 1) \o SubSeq(groups, i + 1, Len(groups))
    ELSE [groups EXCEPT ![i] = [generator |-> Tail(groups[i].generator),
                                next |-> Head(groups[i].generator)]]

\* lines 93-114: one turn of the while loop on <<grouped, count, yielded>>;
\* the state is left as it is once the generator has returned
CombineStep(st, lim) ==
    IF ~(lim = None \/ st.count < lim) THEN st
    ELSE IF Len(st.grouped) = 0 THEN st
    ELSE LET i == SelectNextGroup(st.grouped)
         IN  [grouped |-> RefillGroup(st.grouped, i),
              count |-> st.count + 1,
              yielded |-> Append(st.yielded, st.grouped[i].next)]

\* the generator has returned: the limit is reached or no group is left
CombineReturned(st, lim) ==
    ~(lim = None \/ st.count < lim) \/ Len(st.grouped) = 0

\* n turns of the loop, by halves
RECURSIVE CombineLoop(_, _, _)
CombineLoop(st, lim, n) ==
    IF n = 0 THEN st
    ELSE IF n = 1 THEN CombineStep(st, lim)
    ELSE LET half == CombineLoop(st, lim, n \div 2)
         IN  IF CombineReturned(half, lim) THEN half
             ELSE CombineLoop(half, lim, n - (n \div 2))

RECURSIVE TotalLen(_)
TotalLen(generators) ==
    IF generators = << >> THEN 0
    ELSE Len(Head(generators)) + TotalLen(Tail(generators))

\* the loop yields once a turn, so it has returned after as many turns as
\* the generators hold items
combine_occurrences(generators, lim) ==
    CombineLoop([grouped |-> SeedGroups(generators), count |-> 0,
                 yielded |-> << >>],
                lim, TotalLen(generators)).yielded

(***************************************************************************)
(* Querysets.  An occurrence queryset is a sequence of records in          *)
(* Meta.ordering order; an event queryset is a sequence of event ids.      *)
(***************************************************************************)
\* the datetime a method hands on after normalising it
Normalised(t) == IF use_tz THEN AwareArg(t) ELSE NaiveArg(t)

\* repeat_until__gte=from_date: a DateField lookup compares with the date
\* of the datetime, read in the default zone
RepeatUntilGte(r, from_date) ==
    r.repeat_until # None /\ r.repeat_until >= DateOf(default_naive(from_date))

\* filter_from, the Q of one occurrence row (lines 137-140), with q_func=Q
FromQ(r, from_date) ==
    \/ (r.end # None /\ r.end >= from_date)
    \/ r.start >= from_date
    \/ (r.repeat # "" /\ (RepeatUntilGte(r, from_date) \/ r.repeat_until = None))

\* filter_from(qs, from_date) on an occurrence queryset
filter_from(qs, from_arg) ==
    LET from_date == as_datetime(from_arg, FALSE)
    IN  SelectSeq(qs, LAMBDA r : FromQ(r, from_date))

\* OccurrenceMixin.next_occurrence on a record: the first item, or None
NoOccurrence == << >>
first_item(gen) == IF gen = << >> THEN NoOccurrence ELSE <<Head(gen)>>

Occurrence_next_occurrence(self, from_arg, to_arg) ==
    LET from_date == IF from_arg.kind = "none" THEN NaiveArg(now)
                     ELSE from_arg
    IN  first_item(Occurrence_all_occurrences(self, from_date, to_arg,
                                              REPEAT_MAX))

\* filter_invalid(approx_qs, from_date, to_date) on an occurrence queryset
filter_invalid(approx_qs, from_arg, to_arg) ==
    SelectSeq(approx_qs, LAMBDA obj :
        Occurrence_next_occurrence(obj, from_arg, to_arg) # NoOccurrence)

\* OccurrenceQuerySet.for_period(from_date, to_date, exact)
OccurrenceQuerySet_for_period(qs, from_arg, to_arg, exact) ==
    LET to_date == AsDatetimeOrNone(to_arg, TRUE)
        to_norm == IF to_date = None THEN to_arg ELSE Normalised(to_date)
        qs1 == IF to_arg.kind # "none"
               THEN SelectSeq(qs, LAMBDA r : r.start <= to_date)
               ELSE qs
        qs2 == IF from_arg.kind # "none" THEN filter_from(qs1, from_arg)
               ELSE qs1
    IN  IF from_arg.kind # "none" /\ exact
        THEN filter_invalid(qs2, from_arg, to_norm)
        ELSE qs2

\* the generator expression of BaseQuerySet.all_occurrences, line 189
RECURSIVE OccurrenceGenerators(_, _, _)
OccurrenceGenerators(qs, from_arg, to_arg) ==
    IF qs = << >> THEN << >>
    ELSE <<Occurrence_all_occurrences(Head(qs), from_arg, to_arg, REPEAT_MAX)>>
         \o OccurrenceGenerators(Tail(qs), from_arg, to_arg)

\* BaseQuerySet.all_occurrences on an occurrence queryset
OccurrenceQuerySet_all_occurrences(qs, from_arg, to_arg, lim) ==
    combine_occurrences(
        OccurrenceGenerators(
            OccurrenceQuerySet_for_period(qs, from_arg, to_arg, FALSE),
            from_arg, to_arg),
        lim)

(***************************************************************************)
(* BaseEvent and EventQuerySet.  An event is its id; its occurrences are   *)
(* the rows of the occurrence table that point to it.                      *)
(***************************************************************************)
Events == {1, 2}

\* BaseEvent.get_related_occurrences()
get_related_occurrences(self) == SelectSeq(db, LAMBDA r : r.event = self)

\* BaseEvent.all_occurrences(from_date, to_date, limit)
Event_all_occurrences(self, from_arg, to_arg, lim) ==
    OccurrenceQuerySet_all_occurrences(get_related_occurrences(self),
                                       from_arg, to_arg, lim)

\* OccurrenceMixin.next_occurrence on an event
Event_next_occurrence(self, from_arg, to_arg) ==
    LET from_date == IF from_arg.kind = "none" THEN NaiveArg(now)
                     ELSE from_arg
    IN  first_item(Event_all_occurrences(self, from_date, to_arg, None))

\* the rows the join of an event with its occurrences gives
RelatedRows(e) == {get_related_occurrences(e)[i] :
                     i \in 1..Len(get_related_occurrences(e))}

\* filter_from with q_func=wrap_q, for one event.  A filter() call joins the
\* occurrence table once, so the three alternatives read the same row; the
\* negated ~wrap_q(repeat='') spans a multi-valued relation and is compiled
\* to a subquery: the event has no occurrence row whose repeat is ''.  An
\* event without rows gives one row of NULLs.
EventFromQ(e, from_date) ==
    LET noEmptyRepeat == \A r \in RelatedRows(e) : r.repeat # ""
    IN  \/ \E r \in RelatedRows(e) :
              \/ (r.end # None /\ r.end >= from_date)
              \/ r.start >= from_date
              \/ (noEmptyRepeat
                  /\ (RepeatUntilGte(r, from_date) \/ r.repeat_until = None))
        \/ RelatedRows(e) = {}

\* filter_from(qs, from_date, wrap_q) on an event queryset
filter_from_events(qs, from_arg) ==
    LET from_date == as_datetime(from_arg, FALSE)
    IN  SelectSeq(qs, LAMBDA e : EventFromQ(e, from_date))

\* filter_invalid(approx_qs, from_date, to_date) on an event queryset
filter_invalid_events(approx_qs, from_arg, to_arg) ==
    SelectSeq(approx_qs, LAMBDA obj :
        Event_next_occurrence(obj, from_arg, to_arg) # NoOccurrence)

\* EventQuerySet.for_period(from_date, to_date, exact)
EventQuerySet_for_period(qs, from_arg, to_arg, exact) ==
    LET to_date == AsDatetimeOrNone(to_arg, TRUE)
        to_norm == IF to_date = None THEN to_arg ELSE Normalised(to_date)
        qs1 == IF to_arg.kind # "none"
               THEN SelectSeq(qs, LAMBDA e :
                        \E r \in RelatedRows(e) : r.start <= to_date)
               ELSE qs
        qs2 == IF from_arg.kind # "none" THEN filter_from_events(qs1, from_arg)
               ELSE qs1
    IN  IF from_arg.kind # "none" /\ exact
        THEN filter_invalid_events(qs2, from_arg, to_norm)
        ELSE qs2

\* the generator expression of BaseQuerySet.all_occurrences, line 189, over
\* events: obj.all_occurrences(from_date, to_date) has limit None
RECURSIVE EventGenerators(_, _, _)
EventGenerators(qs, from_arg, to_arg) ==
    IF qs = << >> THEN << >>
    ELSE <<Event_all_occurrences(Head(qs), from_arg, to_arg, None)>>
         \o EventGenerators(Tail(qs), from_arg, to_arg)

\* BaseQuerySet.all_occurrences on an event queryset
EventQuerySet_all_occurrences(qs, from_arg, to_arg, lim) ==
    combine_occurrences(
        EventGenerators(EventQuerySet_for_period(qs, from_arg, to_arg, FALSE),
                        from_arg, to_arg),
        lim)

\* OccurrenceMixin.next_occurrence on a queryset
OccurrenceQuerySet_next_occurrence(qs, from_arg, to_arg) ==
    LET from_date == IF from_arg.kind = "none" THEN NaiveArg(now)
                     ELSE from_arg
    IN  first_item(OccurrenceQuerySet_all_occurrences(qs, from_date, to_arg,
                                                      None))

EventQuerySet_next_occurrence(qs, from_arg, to_arg) ==
    LET from_date == IF from_arg.kind = "none" THEN NaiveArg(now)
                     ELSE from_arg
    IN  first_item(EventQuerySet_all_occurrences(qs, from_date, to_arg, None))

\* sort_key(obj) of sort_by_next: the start of the next occurrence, or None
sort_key(occ) == IF occ = NoOccurrence THEN None ELSE occ[1][1]

\* the list as it stands
sortedAsGiven(pairs) == pairs

\* sorted(list, key=sort_key) on <<key, obj>> pairs: ascending by key, items
\* of equal key in the order of the list
RECURSIVE sorted(_)
sorted(pairs) ==
    IF pairs = << >> THEN << >>
    ELSE LET h == Head(pairs)
             rest == sorted(Tail(pairs))
             n == Cardinality({i \in 1..Len(rest) : rest[i][1] < h[1]})
         IN  SubSeq(rest, 1, n) \o <<h>> \o SubSeq(rest, n + 1, Len(rest))

\* the list comprehension of line 178 and its sort, on <<key, obj>> pairs
SortByNext(keyed) ==
    LET kept == sorted(SelectSeq(keyed, LAMBDA p : p[1] # None))
    IN  [i \in 1..Len(kept) |-> kept[i][2]]

\* BaseQuerySet.sort_by_next(from_date) on an occurrence queryset: the pks
OccurrenceQuerySet_sort_by_next(qs, from_arg) ==
    SortByNext([i \in 1..Len(qs) |->
                   <<sort_key(Occurrence_next_occurrence(qs[i], from_arg,
                                                         NoArg)),
                     qs[i].pk>>])

\* BaseQuerySet.sort_by_next(from_date) on an event queryset: the event ids
EventQuerySet_sort_by_next(qs, from_arg) ==
    SortByNext([i \in 1..Len(qs) |->
                   <<sort_key(Event_next_occurrence(qs[i], from_arg, NoArg)),
                     qs[i]>>])

\* MyEvent.objects.all(), MyOccurrence.objects.all()
AllEvents == <<1, 2>>
AllOccurrences == db

(***************************************************************************)
(* Inputs: records, tables and windows                                     *)
(***************************************************************************)
Record(pk, event, start, delta, repeat, repeat_until) ==
    [pk |-> pk, event |-> event, start |-> start,
     end |-> IF delta = 0 THEN None ELSE start + delta,
     repeat |-> repeat, repeat_until |-> repeat_until]

Repeats == {""} \cup REPEAT_CHOICES
Untils == {None, 1, 2}

\* one record starting on day 1, at any tick of the day
RecordPool ==
    {r \in {Record(1, 1, s, d, rep, ru) :
              s \in TicksPerDay..(2 * TicksPerDay - 1),
              d \in {0, 1, TicksPerDay + 1}, rep \in Repeats, ru \in Untils} :
        clean(r)}

\* the first row of a two-row table: starts at 0:00 of day 1
PoolA ==
    {r \in {Record(1, 1, TicksPerDay, d, rep, ru) :
              d \in {0, TicksPerDay + 1}, rep \in {"", DAILY},
              ru \in Untils} :
        clean(r)}

\* the second row: starts at 23:59:59 of day 2, of either event
PoolB ==
    {Record(2, e, 2 * TicksPerDay + EndOfDayTick, 0, rep, None) :
       e \in Events, rep \in {"", DAILY}}

Tables == {<<a>> : a \in PoolA} \cup {<<a, b>> : a \in PoolA, b \in PoolB}

Days == 0..MaxDay
Ticks == 0..((MaxDay + 1) * TicksPerDay - 1)

\* a date, or a datetime that no date stands for
FromArgs == {NoArg} \cup {DateArg(d) : d \in Days}
                    \cup {NaiveArg(t) : t \in {u \in Ticks : u % TicksPerDay # 0}}
ToArgs == {NoArg} \cup {DateArg(d) : d \in Days}
                  \cup {NaiveArg(t) : t \in {u \in Ticks :
                                                u % TicksPerDay # EndOfDayTick}}
FewArgs == {NoArg} \cup {DateArg(d) : d \in Days}
                   \cup {NaiveArg(MaxDay * TicksPerDay + EndOfDayTick)}

\* from_date <= to_date when both are given
IsWindow(from_arg, to_arg) ==
    \/ from_arg.kind = "none"
    \/ to_arg.kind = "none"
    \/ as_datetime(from_arg, FALSE) <= as_datetime(to_arg, TRUE)

Idle == [op |-> "idle", target |-> 0, from_date |-> NoArg, to_date |-> NoArg,
         limit |-> None, exact |-> FALSE]

ReturnsOrRaises(op, target, from_arg, to_arg, lim, exact, value, exc) ==
    /\ call.op = "idle"
    /\ IsWindow(from_arg, to_arg)
    /\ call' = [op |-> op, target |-> target, from_date |-> from_arg,
                to_date |-> to_arg, limit |-> lim, exact |-> exact]
    /\ result' = value
    /\ raised' = exc
    /\ UNCHANGED <<use_tz, time_zone, now, db>>
    /\ UNCHANGED mergeVars

Returns(op, target, from_arg, to_arg, lim, exact, value) ==
    ReturnsOrRaises(op, target, from_arg, to_arg, lim, exact, value, FALSE)

(***************************************************************************)
(* The public methods                                                      *)
(***************************************************************************)
\* list(occ.all_occurrences(from_date, to_date)): limit is REPEAT_MAX
OccurrenceAllOccurrencesDefault(i, from_arg, to_arg) ==
    ReturnsOrRaises(
        "Occurrence.all_occurrences", i, from_arg, to_arg, None, FALSE,
        Occurrence_all_occurrences(db[i], from_arg, to_arg, REPEAT_MAX),
        Occurrence_all_occurrences_raises(db[i], from_arg, to_arg,
                                          REPEAT_MAX))

\* list(occ.all_occurrences(from_date, to_date, limit=lim))
OccurrenceAllOccurrences(i, from_arg, to_arg, lim) ==
    ReturnsOrRaises(
        "Occurrence.all_occurrences", i, from_arg, to_arg, lim, FALSE,
        Occurrence_all_occurrences(db[i], from_arg, to_arg, lim),
        Occurrence_all_occurrences_raises(db[i], from_arg, to_arg, lim))

\* list(MyOccurrence.objects.all().all_occurrences(from_date, to_date, limit))
OccurrenceQuerySetAllOccurrences(from_arg, to_arg, lim) ==
    Returns("OccurrenceQuerySet.all_occurrences", 0, from_arg, to_arg, lim,
            FALSE,
            OccurrenceQuerySet_all_occurrences(AllOccurrences, from_arg,
                                               to_arg, lim))

\* list(event.all_occurrences(from_date, to_date, limit))
EventAllOccurrences(e, from_arg, to_arg, lim) ==
    Returns("Event.all_occurrences", e, from_arg, to_arg, lim, FALSE,
            Event_all_occurrences(e, from_arg, to_arg, lim))

\* list(MyEvent.objects.all().all_occurrences(from_date, to_date, limit))
EventQuerySetAllOccurrences(from_arg, to_arg, lim) ==
    Returns("EventQuerySet.all_occurrences", 0, from_arg, to_arg, lim, FALSE,
            EventQuerySet_all_occurrences(AllEvents, from_arg, to_arg, lim))

\* MyOccurrence.objects.for_period(from_date, to_date, exact): the pks
OccurrenceQuerySetForPeriod(from_arg, to_arg, exact) ==
    Returns("OccurrenceQuerySet.for_period", 0, from_arg, to_arg, None, exact,
            LET qs == OccurrenceQuerySet_for_period(AllOccurrences, from_arg,
                                                    to_arg, exact)
            IN  [i \in 1..Len(qs) |-> qs[i].pk])

\* MyEvent.objects.for_period(from_date, to_date, exact): the event ids
EventQuerySetForPeriod(from_arg, to_arg, exact) ==
    Returns("EventQuerySet.for_period", 0, from_arg, to_arg, None, exact,
            EventQuerySet_for_period(AllEvents, from_arg, to_arg, exact))

\* obj.next_occurrence(from_date, to_date) on each kind of object
OccurrenceNextOccurrence(i, from_arg, to_arg) ==
    Returns("Occurrence.next_occurrence", i, from_arg, to_arg, None, FALSE,
            Occurrence_next_occurrence(db[i], from_arg, to_arg))

EventNextOccurrence(e, from_arg, to_arg) ==
    Returns("Event.next_occurrence", e, from_arg, to_arg, None, FALSE,
            Event_next_occurrence(e, from_arg, to_arg))

OccurrenceQuerySetNextOccurrence(from_arg, to_arg) ==
    Returns("OccurrenceQuerySet.next_occurrence", 0, from_arg, to_arg, None,
            FALSE,
            OccurrenceQuerySet_next_occurrence(AllOccurrences, from_arg,
                                               to_arg))

EventQuerySetNextOccurrence(from_arg, to_arg) ==
    Returns("EventQuerySet.next_occurrence", 0, from_arg, to_arg, None, FALSE,
            EventQuerySet_next_occurrence(AllEvents, from_arg, to_arg))

\* MyOccurrence.objects.all().sort_by_next(from_date)
OccurrenceQuerySetSortByNext(from_arg) ==
    Returns("OccurrenceQuerySet.sort_by_next", 0, from_arg, NoArg, None, FALSE,
            OccurrenceQuerySet_sort_by_next(AllOccurrences, from_arg))

\* MyEvent.objects.all().sort_by_next(from_date)
EventQuerySetSortByNext(from_arg) ==
    Returns("EventQuerySet.sort_by_next", 0, from_arg, NoArg, None, FALSE,
            EventQuerySet_sort_by_next(AllEvents, from_arg))

MergeIdle ==
    /\ gens = << >>
    /\ grouped = << >>
    /\ count = 0
    /\ limit = None
    /\ yielded = << >>
    /\ pulls = 0
    /\ next_group = 0
    /\ pc = "idle"

(***************************************************************************)
(* SpecRecord: one record, every window, all_occurrences                   *)
(***************************************************************************)
InitRecord ==
    /\ use_tz \in BOOLEAN
    /\ time_zone = NoDst
    /\ raised = FALSE
    /\ now = TicksPerDay
    /\ db \in {<<r>> : r \in RecordPool}
    /\ call = Idle
    /\ result = << >>
    /\ MergeIdle

NextRecord ==
    \/ \E f \in FromArgs, t \in ToArgs :
          OccurrenceAllOccurrencesDefault(1, f, t)
    \/ \E f \in FromArgs, t \in ToArgs, lim \in {0, 2, REPEAT_MAX + 1} :
          OccurrenceAllOccurrences(1, f, t, lim)

SpecRecord == InitRecord /\ [][NextRecord]_vars

(***************************************************************************)
(* SpecClean: one instance, valid or not, and its clean()                  *)
(***************************************************************************)
CleanPool ==
    {[pk |-> 1, event |-> 1, start |-> st, end |-> en, repeat |-> rep,
      repeat_until |-> ru] :
        st \in {None} \cup (TicksPerDay..(2 * TicksPerDay - 1)),
        en \in {None} \cup (TicksPerDay..(2 * TicksPerDay)),
        rep \in {"", DAILY},
        ru \in {None} \cup (0..2)}

\* occ.clean(): `self` is the instance as it was before the call
OccurrenceClean(i, utc) ==
    /\ call.op = "idle"
    /\ utc => use_tz
    /\ call' = [op |-> "Occurrence.clean", target |-> i, self |-> db[i],
                utc |-> utc]
    /\ raised' = CleanRaises(db[i], utc)
    /\ UNCHANGED <<use_tz, time_zone, now, db, result>>
    /\ UNCHANGED mergeVars

InitClean ==
    /\ use_tz \in BOOLEAN
    /\ time_zone = NoDst
    /\ raised = FALSE
    /\ now = TicksPerDay
    /\ db \in {<<r>> : r \in CleanPool}
    /\ call = Idle
    /\ result = << >>
    /\ MergeIdle

NextClean == \E utc \in BOOLEAN : OccurrenceClean(1, utc)

SpecClean == InitClean /\ [][NextClean]_vars

(***************************************************************************)
(* SpecMigrate: a table from before the change of the repeat column, and   *)
(* OccurrenceManager.migrate_integer_repeat()                              *)
(***************************************************************************)
MaxRuns == 2

\* the Case with its default keeping the column
RepeatCaseKeeping(repeat) ==
    CASE repeat = rrule_YEARLY -> YEARLY
      [] repeat = rrule_MONTHLY -> MONTHLY
      [] repeat = rrule_WEEKLY -> WEEKLY
      [] repeat = rrule_DAILY -> DAILY
      [] OTHER -> repeat

\* Case(When(repeat=rrule.YEARLY, then=...), ..., default=Value(""))
RepeatCase(repeat) ==
    CASE repeat = rrule_YEARLY -> YEARLY
      [] repeat = rrule_MONTHLY -> MONTHLY
      [] repeat = rrule_WEEKLY -> WEEKLY
      [] repeat = rrule_DAILY -> DAILY
      [] OTHER -> ""

\* self.update(repeat=Case(...)): one UPDATE statement over every row
migrate_integer_repeat(table) ==
    [i \in 1..Len(table) |-> [table[i] EXCEPT !.repeat = RepeatCase(@)]]

StoredRepeats ==
    {rrule_YEARLY, rrule_MONTHLY, rrule_WEEKLY, rrule_DAILY, "4", "",
     YEARLY, MONTHLY, WEEKLY, DAILY}

MigratePool(pk) ==
    {Record(pk, 1, TicksPerDay * pk, 1, r, u) :
        r \in StoredRepeats, u \in {None, 2}}

\* MyOccurrence.objects.migrate_integer_repeat(); `before` is the table
\* before this run, `first` the table after the first run
ManagerMigrateIntegerRepeat ==
    /\ call.op \in {"idle", "Manager.migrate_integer_repeat"}
    /\ call.op # "idle" => call.runs < MaxRuns
    /\ db' = migrate_integer_repeat(db)
    /\ call' = [op |-> "Manager.migrate_integer_repeat",
                before |-> db,
                first |-> IF call.op = "idle" THEN db' ELSE call.first,
                runs |-> IF call.op = "idle" THEN 1 ELSE call.runs + 1]
    /\ UNCHANGED <<use_tz, time_zone, raised, now, result>>
    /\ UNCHANGED mergeVars

InitMigrate ==
    /\ use_tz = FALSE
    /\ time_zone = NoDst
    /\ raised = FALSE
    /\ now = TicksPerDay
    /\ db \in {<<a, b>> : a \in MigratePool(1), b \in MigratePool(2)}
    /\ call = Idle
    /\ result = << >>
    /\ MergeIdle

NextMigrate == ManagerMigrateIntegerRepeat

SpecMigrate == InitMigrate /\ [][NextMigrate]_vars

(***************************************************************************)
(* SpecDst: one WEEKLY record, zone-awareness on, and a default zone whose  *)
(* offset changes in the week after the record's start                     *)
(***************************************************************************)
\* the day of the transition: a week after day 1, the record's start day
DstDay == 1 + 7

DstZones ==
    {[at |-> DstDay * TicksPerDay + i, shift |-> sh, strict |-> st] :
        i \in 0..(TicksPerDay - 1), sh \in {-1, 1}, st \in BOOLEAN}

\* a record without end, as in test_dst_boundary, starting on day 1
DstPool ==
    {Record(1, 1, s, 0, WEEKLY, None) :
        s \in TicksPerDay..(2 * TicksPerDay - 1)}

\* windows around the transition
DstArgs ==
    {NoArg} \cup {DateArg(d) : d \in (DstDay - 1)..(DstDay + 1)}
            \cup {NaiveArg(DstDay * TicksPerDay + i) :
                    i \in 0..(TicksPerDay - 1)}
            \cup {AwareArg(DstDay * TicksPerDay + i) :
                    i \in 0..(TicksPerDay - 1)}

InitDst ==
    /\ use_tz = TRUE
    /\ time_zone \in DstZones
    /\ raised = FALSE
    /\ now = TicksPerDay
    /\ db \in {<<r>> : r \in DstPool}
    /\ call = Idle
    /\ result = << >>
    /\ MergeIdle

NextDst ==
    \/ \E f \in DstArgs, t \in DstArgs :
          OccurrenceAllOccurrencesDefault(1, f, t)
    \/ \E f \in DstArgs, t \in DstArgs :
          OccurrenceAllOccurrences(1, f, t, 2)

SpecDst == InitDst /\ [][NextDst]_vars

(***************************************************************************)
(* Spec: a table of one or two records of one or two events, and every     *)
(* public method of the records, the events and the querysets              *)
(***************************************************************************)
Init ==
    /\ use_tz = FALSE
    /\ time_zone = NoDst
    /\ raised = FALSE
    /\ now = TicksPerDay
    /\ db \in Tables
    /\ call = Idle
    /\ result = << >>
    /\ MergeIdle

Limits == {None, 1, REPEAT_MAX + 1}

Next ==
    \/ \E i \in 1..Len(db), f \in FewArgs, t \in FewArgs :
          OccurrenceAllOccurrencesDefault(i, f, t)
    \/ \E f \in FewArgs, t \in FewArgs, lim \in Limits :
          OccurrenceQuerySetAllOccurrences(f, t, lim)
    \/ \E e \in Events, f \in FewArgs, t \in FewArgs, lim \in Limits :
          EventAllOccurrences(e, f, t, lim)
    \/ \E f \in FewArgs, t \in FewArgs, lim \in Limits :
          EventQuerySetAllOccurrences(f, t, lim)
    \/ \E f \in FewArgs, t \in FewArgs, exact \in BOOLEAN :
          OccurrenceQuerySetForPeriod(f, t, exact)
    \/ \E f \in FewArgs, t \in FewArgs, exact \in BOOLEAN :
          EventQuerySetForPeriod(f, t, exact)
    \/ \E i \in 1..Len(db), f \in FewArgs, t \in FewArgs :
          OccurrenceNextOccurrence(i, f, t)
    \/ \E e \in Events, f \in FewArgs, t \in FewArgs :
          EventNextOccurrence(e, f, t)
    \/ \E f \in FewArgs, t \in FewArgs :
          OccurrenceQuerySetNextOccurrence(f, t)
    \/ \E f \in FewArgs, t \in FewArgs :
          EventQuerySetNextOccurrence(f, t)
    \/ \E f \in FewArgs : OccurrenceQuerySetSortByNext(f)
    \/ \E f \in FewArgs : EventQuerySetSortByNext(f)

Spec == Init /\ [][Next]_vars

(***************************************************************************)
(* SpecMerge: combine_occurrences as the generator it is, one action for   *)
(* each stretch of its body between two points where it hands control over *)
(***************************************************************************)
MergeMaxStart == 1
MergeMaxLen == 2
GeneratorIds == {1, 2, 3}

\* an item of generator g: the end falls as the start rises
MergeItem(g, start) == <<start, 2 * MergeMaxStart - start, g>>

AscendingStarts ==
    {s \in UNION {[1..n -> 0..MergeMaxStart] : n \in 0..MergeMaxLen} :
        \A i \in 1..(Len(s) - 1) : s[i] <= s[i + 1]}

GeneratorLists ==
    {[g \in GeneratorIds |-> [i \in 1..Len(f[g]) |-> MergeItem(g, f[g][i])]] :
        f \in [GeneratorIds -> AscendingStarts]}

InitMerge ==
    /\ use_tz = FALSE
    /\ time_zone = NoDst
    /\ raised = FALSE
    /\ now = TicksPerDay
    /\ db = << >>
    /\ gens \in GeneratorLists
    /\ limit \in {None, 0, 1, 3}
    /\ call = [op |-> "combine_occurrences", generators |-> gens,
               limit |-> limit]
    /\ result = << >>
    /\ grouped = << >>
    /\ count = 0
    /\ yielded = << >>
    /\ pulls = 0
    /\ next_group = 0
    /\ pc = "seed"

\* lines 85-91, one turn of the for loop: next(gen), and a group for it
\* unless it is exhausted
MergeSeed ==
    /\ pc = "seed"
    /\ gens # << >>
    /\ pulls' = pulls + 1
    /\ grouped' = grouped \o SeedGroups(<<Head(gens)>>)
    /\ gens' = Tail(gens)
    /\ pc' = IF Tail(gens) = << >> THEN "loop" ELSE "seed"
    /\ UNCHANGED <<use_tz, time_zone, raised, now, db, call, result, count, limit, yielded,
                   next_group>>

\* lines 93-106: the loop test, the choice of the group, the yield
MergeYield ==
    /\ pc = "loop"
    /\ limit = None \/ count < limit
    /\ Len(grouped) # 0
    /\ next_group' = SelectNextGroup(grouped)
    /\ yielded' = Append(yielded, grouped[next_group'].next)
    /\ pc' = "yielded"
    /\ UNCHANGED <<use_tz, time_zone, raised, now, db, call, result, gens, grouped, count, limit,
                   pulls>>

\* lines 107-114, when the consumer asks for the next item
MergeResume ==
    /\ pc = "yielded"
    /\ count' = count + 1
    /\ pulls' = pulls + 1
    /\ grouped' = RefillGroup(grouped, next_group)
    /\ pc' = "loop"
    /\ UNCHANGED <<use_tz, time_zone, raised, now, db, call, result, gens, limit, yielded,
                   next_group>>

\* the loop left only by its limit
LoopEndsOnLimit(groups, cnt, lim) == ~(lim = None \/ cnt < lim)

\* lines 93-96: the while test fails, or `if not len(grouped): return`
LoopEnds(groups, cnt, lim) ==
    ~(lim = None \/ cnt < lim) \/ Len(groups) = 0

\* lines 93-96: the limit is reached or no group is left
MergeReturn ==
    /\ pc = "loop"
    /\ LoopEnds(grouped, count, limit)
    /\ pc' = "done"
    /\ UNCHANGED <<use_tz, time_zone, raised, now, db, call, result, gens, grouped, count, limit,
                   yielded, pulls, next_group>>

NextMerge == MergeSeed \/ MergeYield \/ MergeResume \/ MergeReturn

SpecMerge == InitMerge /\ [][NextMerge]_vars

\* the listed combine_occurrences is what the generator yields in all
CombineAgrees ==
    pc = "done" => yielded = combine_occurrences(call.generators, limit)

(***************************************************************************)
(* SpecPull: a consumer that keeps calling next() on all_occurrences() of  *)
(* a record that repeats without end, or on the merge over a table of such *)
(* records.  The consumer never stops asking, hence the fairness.          *)
(***************************************************************************)
PullPool(pk, repeats) ==
    {Record(pk, 1, s, 0, r, None) :
        s \in TicksPerDay..(2 * TicksPerDay - 1), r \in repeats}

PullTables ==
    {<<a, b>> : a \in PullPool(1, {DAILY, WEEKLY}), b \in PullPool(2, {WEEKLY})}

InitPullRecord ==
    /\ db \in {<<r>> : r \in PullPool(1, {DAILY, WEEKLY})}
    /\ limit \in {1, REPEAT_MAX, REPEAT_MAX + 1}
    /\ call = [op |-> "Occurrence.all_occurrences", target |-> 1,
               from_date |-> NoArg, to_date |-> NoArg, limit |-> limit,
               exact |-> FALSE]
    /\ gens = << >>
    /\ pc = "start"

InitPullMerge ==
    /\ db \in PullTables
    /\ limit \in {None, 1, REPEAT_MAX + 1}
    /\ call = [op |-> "OccurrenceQuerySet.all_occurrences", target |-> 0,
               from_date |-> NoArg, to_date |-> NoArg, limit |-> limit,
               exact |-> FALSE]
    /\ gens = << >>
    /\ pc = "queryset"

InitPull ==
    /\ use_tz \in BOOLEAN
    /\ time_zone = NoDst
    /\ raised = FALSE
    /\ now = TicksPerDay
    /\ result = << >>
    /\ grouped = << >>
    /\ count = 0
    /\ yielded = << >>
    /\ pulls = 0
    /\ next_group = 0
    /\ InitPullRecord \/ InitPullMerge

\* what the repeater's list has left: the list itself at the first next()
RepeaterRest ==
    IF pc = "start" THEN RepeaterBetween(db[1], NoArg, NoArg) ELSE gens[1]

\* models.py lines 413-421, a next() that ends at the yield: the loop takes
\* an item from the list, counts it, and yields it made aware
RecordYield ==
    /\ pc \in {"start", "occurrence"}
    /\ RepeaterRest # << >>
    /\ count + 1 <= limit
    /\ count' = count + 1
    /\ result' = Append(result,
                        <<RezoneOccurrence(Head(RepeaterRest)),
                          RezoneOccurrence(Head(RepeaterRest))
                              + OccurrenceDelta(db[1]),
                          db[1].pk>>)
    /\ gens' = <<Tail(RepeaterRest)>>
    /\ pc' = "occurrence"
    /\ UNCHANGED <<use_tz, time_zone, raised, now, db, call, grouped, limit,
                   yielded, pulls, next_group>>

\* a next() that ends the generator: the list is used up, or the item taken
\* is past the limit
RecordReturn ==
    /\ pc \in {"start", "occurrence"}
    /\ RepeaterRest = << >> \/ count + 1 > limit
    /\ count' = IF RepeaterRest = << >> THEN count ELSE count + 1
    /\ gens' = <<IF RepeaterRest = << >> THEN << >> ELSE Tail(RepeaterRest)>>
    /\ pc' = "done"
    /\ UNCHANGED <<use_tz, time_zone, raised, now, db, call, result, grouped,
                   limit, yielded, pulls, next_group>>

\* models.py lines 180-189, qs.all_occurrences(limit=limit): for_period,
\* and a generator for every record that is left
QuerySetAllOccurrences ==
    /\ pc = "queryset"
    /\ gens' = OccurrenceGenerators(
                   OccurrenceQuerySet_for_period(db, NoArg, NoArg, FALSE),
                   NoArg, NoArg)
    /\ pc' = "seed"
    /\ UNCHANGED <<use_tz, time_zone, raised, now, db, call, result, grouped,
                   count, limit, yielded, pulls, next_group>>

NextPull ==
    \/ RecordYield \/ RecordReturn
    \/ QuerySetAllOccurrences
    \/ MergeSeed \/ MergeYield \/ MergeResume \/ MergeReturn

SpecPull == InitPull /\ [][NextPull]_vars /\ WF_vars(NextPull)

\* the listed all_occurrences is what the record's generator yields in all
RecordAgrees ==
    (pc = "done" /\ call.op = "Occurrence.all_occurrences") =>
        result = Occurrence_all_occurrences(db[1], NoArg, NoArg, limit)

(***************************************************************************)
(* Properties                                                              *)
(***************************************************************************)
\* the record, the window and the limit of the call made
Rec == db[call.target]
WinFrom == AsDatetimeOrNone(call.from_date, FALSE)
WinTo == AsDatetimeOrNone(call.to_date, TRUE)
LimitOf == IF call.limit = None THEN REPEAT_MAX ELSE call.limit
RecordCall == call.op = "Occurrence.all_occurrences"

\* the starts of the rule of rec up to a tick: start, start + period, ...
RuleStartsUpTo(rec, upper) ==
    IF upper < rec.start THEN {}
    ELSE {rec.start + k * Period(rec.repeat) :
            k \in 0..((upper - rec.start) \div Period(rec.repeat))}

\* the rule's starts s whose interval [s, s + delta] meets [WinFrom, upper]
StartsMeeting(rec, upper) ==
    {s \in RuleStartsUpTo(rec, upper) :
        WinFrom = None \/ s + OccurrenceDelta(rec) >= WinFrom}

\* 23:59:59 on repeat_until, and the tighter of it and to_date; the
\* far-future date when neither is given
UpperBounds(rec) ==
    (IF WinTo = None THEN {} ELSE {WinTo})
    \cup (IF rec.repeat_until = None THEN {}
          ELSE {default_aware(rec.repeat_until * TicksPerDay
                              + EndOfDayTick)})
EffectiveTo(rec) ==
    IF UpperBounds(rec) = {} THEN default_aware(max_future_date)
    ELSE CHOOSE u \in UpperBounds(rec) : \A v \in UpperBounds(rec) : u <= v

\* the listing of n occurrences of rec from start s0 on
Listing(rec, s0, n) ==
    [i \in 1..n |-> <<s0 + (i - 1) * Period(rec.repeat),
                      s0 + (i - 1) * Period(rec.repeat) + OccurrenceDelta(rec),
                      rec.pk>>]
Least(S) == CHOOSE s \in S : \A u \in S : s <= u

\* C1: whatever the limit, combine_occurrences over inputs that are each
\* ascending by start yields in ascending order of start: every item yielded
\* starts no earlier than every item yielded before it.
C1_MergeAscending ==
    \A i \in 1..Len(yielded) : \A j \in 1..Len(yielded) :
        i < j => yielded[i][1] <= yielded[j][1]

\* the merge ended after yielding an item of a later generator before a
\* later-starting, earlier-ending item of an earlier generator
C1_Witness ==
    /\ pc = "done"
    /\ \E i \in 1..Len(yielded) : \E j \in 1..Len(yielded) :
          /\ i < j
          /\ yielded[i][3] > yielded[j][3]
          /\ yielded[i][1] < yielded[j][1]
          /\ yielded[i][2] > yielded[j][2]

\* C4: a record that does not repeat yields its one occurrence
\* (start, end, payload) exactly when [start, end] (the instant start when
\* end is absent) meets the window, an absent bound being unbounded, and
\* nothing otherwise.
C4_NonRepeatingContainment ==
    (RecordCall /\ Rec.repeat = "") =>
        LET last == IF Rec.end = None THEN Rec.start ELSE Rec.end
            meets == /\ (WinFrom = None \/ last >= WinFrom)
                     /\ (WinTo = None \/ Rec.start <= WinTo)
        IN  result = IF meets THEN << <<Rec.start, Rec.end, Rec.pk>> >>
                     ELSE << >>

\* a record in progress at from_date was yielded
C4_Witness ==
    /\ RecordCall
    /\ Rec.repeat = ""
    /\ WinFrom # None /\ WinTo # None
    /\ Rec.start < WinFrom
    /\ Rec.end # None /\ Rec.end >= WinFrom
    /\ result = << <<Rec.start, Rec.end, Rec.pk>> >>

\* C5 as stated: a repeating record yields, ascending and up to the limit,
\* exactly the rule's starts s with [s, s + delta] meeting
\* [from_date, to_date], each as (s, s + delta, payload); without to_date
\* the rule does not end, so the limit is reached.
C5_AsStated ==
    (RecordCall /\ Rec.repeat # "") =>
        LET S == StartsMeeting(Rec, IF WinTo = None
                                    THEN (MaxDay + 2) * TicksPerDay
                                    ELSE WinTo)
            n == IF WinTo = None THEN LimitOf
                 ELSE Min(LimitOf, Cardinality(S))
        IN  result = IF n = 0 THEN << >> ELSE Listing(Rec, Least(S), n)

\* C5, amended: the same with the window's upper bound cut to 23:59:59 of
\* repeat_until when that is set and earlier than to_date, and set to the
\* far-future date when neither to_date nor repeat_until is given.
C5_RepeatingIntersection ==
    (RecordCall /\ Rec.repeat # "") =>
        LET S == StartsMeeting(Rec, EffectiveTo(Rec))
            n == Min(LimitOf, Cardinality(S))
        IN  result = IF n = 0 THEN << >> ELSE Listing(Rec, Least(S), n)

\* an occurrence that starts before from_date and ends at or after it was
\* yielded, with a later one
C5_Witness ==
    /\ RecordCall
    /\ Rec.repeat # ""
    /\ WinFrom # None
    /\ Len(result) >= 2
    /\ result[1][1] < WinFrom
    /\ result[1][2] >= WinFrom

\* C6: all_occurrences(limit=n) on a repeating record yields exactly
\* min(n, M) occurrences, M the number of the rule's occurrences in the
\* effective window, and they are the first ones in ascending order; without
\* a limit argument n is REPEAT_MAX = 200.
C6_LimitEnforced ==
    (RecordCall /\ Rec.repeat # "") =>
        LET S == StartsMeeting(Rec, EffectiveTo(Rec))
        IN  /\ Len(result) = Min(LimitOf, Cardinality(S))
            /\ call.limit = None => Len(result) <= 200
            /\ \A i \in 1..Len(result) :
                  /\ result[i][1] \in S
                  /\ Cardinality({s \in S : s < result[i][1]}) = i - 1

\* a record with more than 200 occurrences in the window yielded exactly 200
\* without a limit argument
C6_Witness ==
    /\ RecordCall
    /\ Rec.repeat = DAILY
    /\ call.limit = None
    /\ Cardinality(StartsMeeting(Rec, EffectiveTo(Rec))) > REPEAT_MAX
    /\ Len(result) = 200

\* the items of a sequence
Range(seq) == {seq[i] : i \in 1..Len(seq)}

\* the records a call is about: the record, the event's records, or all
Involved ==
    IF call.op \in {"Occurrence.all_occurrences", "Occurrence.next_occurrence"}
    THEN {db[call.target]}
    ELSE IF call.op \in {"Event.all_occurrences", "Event.next_occurrence"}
    THEN {r \in Range(db) : r.event = call.target}
    ELSE Range(db)

\* what record.all_occurrences(from_date, to_date) of the call's window lists
OwnOccurrences(rec) ==
    Occurrence_all_occurrences(rec, call.from_date, call.to_date, REPEAT_MAX)

\* the number of occurrences of rec in the window, whatever the limit
InWindowCount(rec) ==
    IF rec.repeat = ""
    THEN IF /\ (WinFrom = None
                \/ (IF rec.end = None THEN rec.start ELSE rec.end) >= WinFrom)
            /\ (WinTo = None \/ rec.start <= WinTo)
         THEN 1 ELSE 0
    ELSE Cardinality(StartsMeeting(rec, EffectiveTo(rec)))

\* the number of occurrences of a set of records in the window
RECURSIVE TotalInWindow(_)
TotalInWindow(S) ==
    IF S = {} THEN 0
    ELSE LET x == CHOOSE y \in S : TRUE
         IN  InWindowCount(x) + TotalInWindow(S \ {x})

\* C2: for_period(from_date, to_date, exact=False) has no false negative:
\* every record whose own all_occurrences(from_date, to_date) yields an
\* occurrence is retained by OccurrenceQuerySet.for_period, and its event by
\* EventQuerySet.for_period.
C2_NoFalseNegative ==
    /\ (call.op = "OccurrenceQuerySet.for_period" /\ ~call.exact) =>
          \A r \in Range(db) :
              OwnOccurrences(r) # << >> => r.pk \in Range(result)
    /\ (call.op = "EventQuerySet.for_period" /\ ~call.exact) =>
          \A r \in Range(db) :
              OwnOccurrences(r) # << >> => r.event \in Range(result)

\* C3: for_period(from_date, to_date, exact=True) returns precisely the
\* records, or the events, with an occurrence in the window.
C3_ExactIsPrecise ==
    /\ (call.op = "OccurrenceQuerySet.for_period" /\ call.exact) =>
          Range(result) = {r.pk : r \in {x \in Range(db) :
                                           OwnOccurrences(x) # << >>}}
    /\ (call.op = "EventQuerySet.for_period" /\ call.exact) =>
          Range(result) = {r.event : r \in {x \in Range(db) :
                                              OwnOccurrences(x) # << >>}}

CollectionAllOccurrences ==
    call.op \in {"Event.all_occurrences", "OccurrenceQuerySet.all_occurrences",
                 "EventQuerySet.all_occurrences"}

\* C7: all_occurrences(limit=n) on an event or a queryset yields exactly
\* min(n, T) occurrences, T the number of occurrences of all its records in
\* the window, for every n, also above 200.
C7_LimitPerCall ==
    (CollectionAllOccurrences /\ call.limit # None) =>
        Len(result) = Min(call.limit, TotalInWindow(Involved))

\* C8: all_occurrences() without a limit yields at most REPEAT_MAX = 200
\* occurrences in all, on a record, an event and both querysets, however
\* many repeating records are involved.
C8_DefaultCap ==
    ((CollectionAllOccurrences \/ RecordCall) /\ call.limit = None) =>
        Len(result) <= 200

\* the listings of the records of a table, in its order
RECURSIVE OwnListings(_)
OwnListings(qs) ==
    IF qs = << >> THEN << >>
    ELSE <<OwnOccurrences(Head(qs))>> \o OwnListings(Tail(qs))

\* C9: event.all_occurrences(from_date, to_date) without a limit is the
\* merge by start of record.all_occurrences(from_date, to_date) over all the
\* records of the event: the approximate filter removes no occurrence.
C9_EventIsMergeOfRecords ==
    (call.op = "Event.all_occurrences" /\ call.limit = None) =>
        result = combine_occurrences(
                     OwnListings(get_related_occurrences(call.target)), None)

\* the occurrences of the records involved, from_date standing for now when
\* it is not given
NextFrom == IF call.from_date.kind = "none" THEN NaiveArg(now)
            ELSE call.from_date
NextCandidates ==
    UNION {Range(Occurrence_all_occurrences(r, NextFrom, call.to_date,
                                            REPEAT_MAX)) : r \in Involved}

\* C10: next_occurrence on a record, an event or a queryset returns the
\* occurrence in the window with the least start over all records involved,
\* and None exactly when there is none.
C10_NextIsEarliest ==
    (call.op \in {"Occurrence.next_occurrence", "Event.next_occurrence",
                  "OccurrenceQuerySet.next_occurrence",
                  "EventQuerySet.next_occurrence"}) =>
        IF NextCandidates = {} THEN result = NoOccurrence
        ELSE /\ result # NoOccurrence
             /\ result[1] \in NextCandidates
             /\ \A o \in NextCandidates : result[1][1] <= o[1]

\* the next occurrence of a member of the collection that was sorted
NextOfMember(m) ==
    IF call.op = "OccurrenceQuerySet.sort_by_next"
    THEN Occurrence_next_occurrence(
             CHOOSE r \in Range(db) : r.pk = m, call.from_date, NoArg)
    ELSE Event_next_occurrence(m, call.from_date, NoArg)
SortedMembers ==
    IF call.op = "OccurrenceQuerySet.sort_by_next"
    THEN {r.pk : r \in Range(db)} ELSE Range(AllEvents)
SortCall ==
    call.op \in {"OccurrenceQuerySet.sort_by_next",
                 "EventQuerySet.sort_by_next"}

\* C11: sort_by_next(from_date) lists exactly the members of the collection
\* whose next_occurrence(from_date) is not None, each once, in ascending
\* order of the start of that next occurrence.
C11_SortByNext ==
    SortCall =>
        /\ Range(result) =
               {m \in SortedMembers : NextOfMember(m) # NoOccurrence}
        /\ Cardinality(Range(result)) = Len(result)
        /\ \A i \in 1..Len(result) : \A j \in 1..Len(result) :
               i < j => NextOfMember(result[i])[1][1]
                            <= NextOfMember(result[j])[1][1]

\* with from_date past the next occurrence of event 1 that an earlier
\* from_date gives, event 2 comes first, while the earlier from_date lists
\* event 1 first
C11_Witness ==
    /\ call.op = "EventQuerySet.sort_by_next"
    /\ result = <<2, 1>>
    /\ \E f \in FewArgs :
          /\ f.kind # "none"
          /\ as_datetime(f, FALSE) < as_datetime(call.from_date, FALSE)
          /\ EventQuerySet_sort_by_next(AllEvents, f) = <<1, 2>>

\* the wall-clock reading of the record's start in the default zone, and the
\* same time of day k weeks later
AnchorWall == default_naive(Rec.start)
WeeksLater(k) == AnchorWall + k * 7 * TicksPerDay
MaxWeeks == (max_future_date \div (7 * TicksPerDay)) + 1

\* C12: with zone-awareness on, every occurrence yielded for a WEEKLY record
\* is the zoned value of the wall-clock time that has the time of day of the
\* record's start, a whole number of weeks after it, whether or not the
\* zone's offset has changed since the start; read in the default zone it
\* shows that time of day (whenever the zone has that wall-clock time on
\* that day).
C12_DstStable ==
    (RecordCall /\ use_tz /\ Rec.repeat = WEEKLY) =>
        \A i \in 1..Len(result) :
            \E k \in 0..MaxWeeks :
                /\ result[i][1] = default_aware(WeeksLater(k))
                /\ Instants(WeeksLater(k)) # {} =>
                      /\ default_naive(result[i][1]) = WeeksLater(k)
                      /\ default_naive(result[i][1]) % TicksPerDay
                             = AnchorWall % TicksPerDay

\* the zone's offset changed between the first and the second occurrence
\* yielded: they are not a week of instants apart, and show the same
\* wall-clock time of day
C12_Witness ==
    /\ RecordCall /\ use_tz /\ Rec.repeat = WEEKLY
    /\ time_zone.at # None
    /\ Len(result) >= 2
    /\ result[1][1] = Rec.start
    /\ result[1][1] < time_zone.at /\ time_zone.at <= result[2][1]
    /\ result[2][1] - result[1][1] # 7 * TicksPerDay
    /\ default_naive(result[2][1]) = AnchorWall + 7 * TicksPerDay

\* the wall-clock tick that the fields of the start of the cleaned instance
\* show
CleanedStartWall ==
    IF call.utc THEN call.self.start ELSE default_naive(call.self.start)

\* C13: clean() raises ValidationError exactly when start and end are both
\* present and end <= start, or repeat_until is set while repeat is empty,
\* or start and repeat_until are both present and the day of repeat_until
\* is over before the day of start begins; it changes no field.
C13_CleanRaisesExactly ==
    call.op = "Occurrence.clean" =>
        /\ raised <=>
              \/ /\ call.self.start # None /\ call.self.end # None
                 /\ call.self.end <= call.self.start
              \/ /\ call.self.repeat_until # None
                 /\ call.self.repeat = ""
              \/ /\ call.self.start # None /\ call.self.repeat_until # None
                 /\ (call.self.repeat_until + 1) * TicksPerDay
                        <= (CleanedStartWall \div TicksPerDay) * TicksPerDay
        /\ db = <<call.self>>

\* an instance whose end equals its start, with nothing else wrong, was
\* refused
C13_Witness ==
    /\ call.op = "Occurrence.clean"
    /\ raised
    /\ call.self.start # None
    /\ call.self.end = call.self.start
    /\ call.self.repeat # ""
    /\ call.self.repeat_until # None
    /\ call.self.repeat_until * TicksPerDay >= CleanedStartWall

MigrateCall == call.op = "Manager.migrate_integer_repeat"

\* the canonical string of a legacy code, '' for anything else
Migrated(repeat) ==
    IF repeat = "0" THEN "RRULE:FREQ=YEARLY"
    ELSE IF repeat = "1" THEN "RRULE:FREQ=MONTHLY"
    ELSE IF repeat = "2" THEN "RRULE:FREQ=WEEKLY"
    ELSE IF repeat = "3" THEN "RRULE:FREQ=DAILY"
    ELSE ""

\* C14: a run of migrate_integer_repeat rewrites the repeat of every record
\* in one step: 0 becomes RRULE:FREQ=YEARLY, 1 RRULE:FREQ=MONTHLY, 2
\* RRULE:FREQ=WEEKLY, 3 RRULE:FREQ=DAILY, and any other value the empty
\* string; no record appears or disappears and no other field changes.
C14_MigrateMapping ==
    MigrateCall =>
        /\ Len(db) = Len(call.before)
        /\ \A i \in 1..Len(db) :
              db[i] = [call.before[i] EXCEPT
                          !.repeat = Migrated(call.before[i].repeat)]

\* one run turned a legacy weekly code into its string and emptied a column
\* that held something else
C14_Witness ==
    /\ MigrateCall
    /\ call.runs = 1
    /\ call.before[1].repeat = "2"
    /\ db[1].repeat = "RRULE:FREQ=WEEKLY"
    /\ call.before[2].repeat = "4"
    /\ db[2].repeat = ""
    /\ db[2].repeat_until # None

\* C15: after any number of runs of migrate_integer_repeat, each record's
\* repeat equals the value it had after the first run.
C15_MigrateIdempotent ==
    MigrateCall =>
        \A i \in 1..Len(db) : db[i].repeat = call.first[i].repeat

\* how often x occurs in a sequence, and in the inputs of the merge
Count(x, seq) == Cardinality({i \in 1..Len(seq) : seq[i] = x})
RECURSIVE CountInAll(_, _)
CountInAll(x, generators) ==
    IF generators = << >> THEN 0
    ELSE Count(x, Head(generators)) + CountInAll(x, Tail(generators))
MergeItems == UNION {Range(call.generators[g]) : g \in DOMAIN call.generators}

\* the inputs that hold an item not yet yielded
Unyielded ==
    {g \in DOMAIN call.generators :
        \E x \in Range(call.generators[g]) :
            Count(x, yielded) < Count(x, call.generators[g])}

\* C16: with limit None, when combine_occurrences finishes every item of
\* every input has been yielded as often as the inputs hold it and nothing
\* else has; between two items the live groups are those of the inputs
\* with something left to yield, and the merge can end exactly when none
\* is left; with a limit n it yields the first min(n, total) items of the
\* merge without limit.
C16_MergeLossless ==
    /\ (pc = "done" /\ limit = None) =>
          /\ \A x \in MergeItems \cup Range(yielded) :
                Count(x, yielded) = CountInAll(x, call.generators)
          /\ grouped = << >>
    /\ pc = "loop" =>
          /\ {grouped[i].next[3] : i \in 1..Len(grouped)} = Unyielded
          /\ Len(grouped) = Cardinality(Unyielded)
    /\ (pc = "loop" /\ limit = None) =>
          (ENABLED MergeReturn <=> Len(yielded) = TotalLen(call.generators))
    /\ (pc = "done" /\ limit # None) =>
          yielded = SubSeq(combine_occurrences(call.generators, None), 1,
                           Min(limit, TotalLen(call.generators)))

\* a merge without limit ended over three inputs that all held items, one of
\* them the same item twice
C16_Witness ==
    /\ pc = "done"
    /\ limit = None
    /\ \A g \in DOMAIN call.generators : call.generators[g] # << >>
    /\ \E x \in Range(yielded) : Count(x, yielded) = 2
    /\ Len(yielded) = TotalLen(call.generators)
    /\ Len(yielded) > Len(call.generators)

RepeatingCall == RecordCall /\ Rec.repeat # ""

\* the rule's starts on the date of repeat_until, in the default zone, that
\* the window admits
StartsOnUntilDate ==
    {s \in StartsMeeting(Rec, default_aware((Rec.repeat_until + 1)
                                            * TicksPerDay)) :
        /\ DateOf(default_naive(s)) = Rec.repeat_until
        /\ WinTo = None \/ s <= WinTo}

\* C17: of a repeating record no occurrence yielded starts after 23:59:59
\* on repeat_until, none starts after to_date, and every occurrence of the
\* rule that starts on the date of repeat_until is yielded when the window
\* and the limit admit it; with neither to_date nor repeat_until the
\* occurrences are those up to midnight of 1 January of the current year
\* plus 10.
C17_EffectiveUpperBound ==
    RepeatingCall =>
        /\ Rec.repeat_until # None =>
              \A i \in 1..Len(result) :
                  default_naive(result[i][1])
                      <= Rec.repeat_until * TicksPerDay + EndOfDayTick
        /\ WinTo # None =>
              \A i \in 1..Len(result) : result[i][1] <= WinTo
        /\ Rec.repeat_until # None =>
              \A s \in StartsOnUntilDate :
                  Cardinality({t \in StartsMeeting(Rec, s) : t < s}) < LimitOf
                      => \E i \in 1..Len(result) : result[i][1] = s
        /\ (Rec.repeat_until = None /\ WinTo = None) =>
              LET S == StartsMeeting(Rec, default_aware(max_future_date))
              IN  /\ Len(result) = Min(LimitOf, Cardinality(S))
                  /\ \A i \in 1..Len(result) : result[i][1] \in S

\* the far-future date as the occurrences have it, and the occurrences that
\* the merge took from record pk
Sentinel == default_aware(max_future_date)
YieldedOf(pk) == {i \in 1..Len(yielded) : yielded[i][3] = pk}

\* when the sequence has ended: no more occurrences than the limit, none
\* after the far-future date, and for a record one of the two reached
PullEnded ==
    IF RecordCall
    THEN /\ Len(result) <= limit
         /\ \A i \in 1..Len(result) : result[i][1] <= Sentinel
         /\ \/ Len(result) = limit
            \/ Rec.start + Len(result) * Period(Rec.repeat) > Sentinel
    ELSE /\ limit # None => Len(yielded) <= limit
         /\ \A i \in 1..Len(yielded) : yielded[i][1] <= Sentinel
         /\ limit = None =>
               \A r \in Range(db) :
                   \/ Cardinality(YieldedOf(r.pk)) = REPEAT_MAX
                   \/ r.start + Cardinality(YieldedOf(r.pk))
                                    * Period(r.repeat) > Sentinel

\* C18: a consumer that keeps pulling all_occurrences() of a record with an
\* endless rule, no to_date and no repeat_until reaches the end of the
\* sequence, after at most `limit` occurrences or at the far-future date,
\* whichever comes first; so does a consumer of the merge over such records.
C18_ExpansionTerminates ==
    /\ <>(pc = "done")
    /\ [](pc = "done" => PullEnded)

\* the merge without limit ended over a daily record cut at REPEAT_MAX and a
\* weekly record cut at the far-future date
C18_Witness ==
    /\ pc = "done"
    /\ call.op = "OccurrenceQuerySet.all_occurrences"
    /\ limit = None
    /\ db[1].repeat = DAILY
    /\ Cardinality(YieldedOf(1)) = REPEAT_MAX
    /\ Cardinality(YieldedOf(2)) < REPEAT_MAX
    /\ Cardinality(YieldedOf(2)) > 1
    /\ yielded[Len(yielded)][1] + Period(WEEKLY) > Sentinel

\* the inputs of the merge, and the number of items taken so far from input
\* g: none before its seeding, what its group's generator no longer holds
\* while it has a group, all of them once it is exhausted
Inputs == DOMAIN call.generators
Pulled(g) ==
    IF g > Len(call.generators) - Len(gens) THEN 0
    ELSE IF \E i \in 1..Len(grouped) : grouped[i].next[3] = g
    THEN LET i == CHOOSE j \in 1..Len(grouped) : grouped[j].next[3] = g
         IN  Len(call.generators[g]) - Len(grouped[i].generator)
    ELSE Len(call.generators[g])

\* the items of input g that the consumer has received
Received(g) == Cardinality({i \in 1..Len(yielded) : yielded[i][3] = g})

\* C19, in every state: of each input at most one item is taken and not yet
\* yielded; the next() calls made on the inputs are at most N + k when the
\* consumer has received k items; a consumer that stops at the first item
\* (next_occurrence) has made one call on each input and holds at most one
\* item of each.
LazyState ==
    /\ \A g \in Inputs :
          /\ Pulled(g) - Received(g) \in {0, 1}
          /\ Pulled(g) <= Len(call.generators[g])
    /\ pulls <= Len(call.generators) + Len(yielded)
    /\ (pc = "yielded" /\ Len(yielded) = 1) =>
          /\ pulls = Len(call.generators)
          /\ \A g \in Inputs : Pulled(g) <= 1

\* C19, in every step after the seeding that calls next(): one call, and
\* only the input whose item was just yielded gives an item
LazyStep ==
    (pc # "seed" /\ pulls' # pulls) =>
        /\ pulls' = pulls + 1
        /\ yielded # << >>
        /\ \A g \in Inputs :
              Pulled(g)' # Pulled(g) =>
                  /\ g = yielded[Len(yielded)][3]
                  /\ Pulled(g)' = Pulled(g) + 1

\* C19: the merge is lazy: at most one item taken and not yet yielded for
\* each live input, after the seeding an item is taken only from the input
\* whose item was just yielded, and at most N + k calls of next() for k items
\* received.
C19_MergeLazy == []LazyState /\ [][LazyStep]_vars

\* the consumer has received two items of a merge of three inputs while an
\* input of two items has given only its first, which it still holds
C19_Witness ==
    /\ pc = "loop"
    /\ Len(yielded) = 2
    /\ pulls = Len(call.generators) + 2
    /\ \E g \in Inputs :
          /\ Len(call.generators[g]) = MergeMaxLen
          /\ Pulled(g) = 1
          /\ Received(g) = 0
    /\ \E g \in Inputs : Received(g) = 2

====
